---- MODULE Spec2Model ----
(***************************************************************************)
(* Model of the three benchmarking programs of the repository:             *)
(*   "lowspec"    - the low-spec device benchmark (src/unnamed/part_003)   *)
(*   "comparison" - tools/model_comparison.go                              *)
(*   "uroboro"    - tools/uroboro_model_tester.go                          *)
(* Each runs: availability check, the nested invocation loop, summary,     *)
(* save, report.  Durations are in milliseconds, memory in MB, scores in   *)
(* thousandths of a point (4.0 is 4000).  An output text is described by   *)
(* its padding (surrounding whitespace), its trimmed length and the set of *)
(* format markers it contains.  A prompt of the comparison tool is         *)
(* described by the set of key phrases of inferUseCase it contains.        *)
(***************************************************************************)
EXTENDS Integers, Sequences, FiniteSets, TLC

VARIABLES tool, profile, listOk, installed, available, runs, pc,
          mi, si, ri, inFlight, spawns, initialMemory, finalMemory, results,
          summary, saved, reported, call

vars == <<tool, profile, listOk, installed, available, runs, pc,
          mi, si, ri, inFlight, spawns, initialMemory, finalMemory, results,
          summary, saved, reported, call>>

\* Largest number of repetitions per (model, scenario) that is explored.
MaxRuns == 1

Tools == {"lowspec", "comparison", "uroboro"}

Min(a, b) == IF a < b THEN a ELSE b

Max(a, b) == IF a > b THEN a ELSE b

RECURSIVE SeqSum(_)
SeqSum(s) == IF s = <<>> THEN 0 ELSE Head(s) + SeqSum(Tail(s))

\* The candidate models that are explored, in the order of the programs' lists.
CandidateModels == <<"mistral:latest", "orca-mini:3b">>

----------------------------------------------------------------------------
(* Scenario catalogs *)

LowSpecScenarios ==
  << [name |-> "Ultra-Fast Capture", useCase |-> "capture", priority |-> "speed", prompt |-> "p-capture"],
     [name |-> "Memory-Efficient Summary", useCase |-> "summary", priority |-> "memory", prompt |-> "p-summary"],
     [name |-> "Battery-Friendly Social", useCase |-> "social", priority |-> "speed", prompt |-> "p-social"],
     [name |-> "Quality-Focused Devlog", useCase |-> "devlog", priority |-> "quality", prompt |-> "p-devlog"],
     [name |-> "Resource-Constrained Blog", useCase |-> "blog", priority |-> "memory", prompt |-> "p-blog"] >>

ComparisonTestCases ==
  << [name |-> "Quick Capture", useCase |-> "capture", prompt |-> {"summary", "concise"}],
     [name |-> "Technical Devlog", useCase |-> "devlog", prompt |-> {"development log"}],
     [name |-> "Professional Blog Post", useCase |-> "blog", prompt |-> {"blog post", "engaging blog"}],
     [name |-> "Social Media Content", useCase |-> "social", prompt |-> {"social media", "engaging social"}],
     [name |-> "Code Analysis", useCase |-> "devlog", prompt |-> {}] >>

UroboroTestCases ==
  << [name |-> "Quick Bug Fix Capture", useCase |-> "capture", prompt |-> "p-capture-1"],
     [name |-> "Feature Implementation Capture", useCase |-> "capture", prompt |-> "p-capture-2"],
     [name |-> "Performance Optimization Capture", useCase |-> "capture", prompt |-> "p-capture-3"],
     [name |-> "Architecture Refactor Devlog", useCase |-> "devlog", prompt |-> "p-devlog-1"],
     [name |-> "API Development Devlog", useCase |-> "devlog", prompt |-> "p-devlog-2"],
     [name |-> "Technical Achievement Blog", useCase |-> "blog", prompt |-> "p-blog-1"],
     [name |-> "Lessons Learned Blog", useCase |-> "blog", prompt |-> "p-blog-2"],
     [name |-> "Achievement Social Post", useCase |-> "social", prompt |-> "p-social-1"],
     [name |-> "Learning Social Post", useCase |-> "social", prompt |-> "p-social-2"] >>

RECURSIVE Pick(_, _, _)
Pick(cat, keep, i) ==
  IF i > Len(cat) THEN <<>>
  ELSE (IF i \in keep THEN <<cat[i]>> ELSE <<>>) \o Pick(cat, keep, i + 1)

\* The catalog entries a run is explored over, in catalog order.
LowSpecExplored == Pick(LowSpecScenarios, {1, 4}, 1)

ComparisonExplored == Pick(ComparisonTestCases, {2, 5}, 1)

UroboroExplored == Pick(UroboroTestCases, {1, 4}, 1)

Scenarios(t) ==
  CASE t = "lowspec" -> LowSpecExplored
    [] t = "comparison" -> ComparisonExplored
    [] t = "uroboro" -> UroboroExplored

\* strings.ToLower on the scenario names of the low-spec catalog.
ToLower(s) ==
  CASE s = "Ultra-Fast Capture" -> "ultra-fast capture"
    [] s = "Memory-Efficient Summary" -> "memory-efficient summary"
    [] s = "Battery-Friendly Social" -> "battery-friendly social"
    [] s = "Quality-Focused Devlog" -> "quality-focused devlog"
    [] s = "Resource-Constrained Blog" -> "resource-constrained blog"
    [] OTHER -> s

----------------------------------------------------------------------------
(* Configuration constants of the programs *)

ComparisonTimeoutSec == 45

ComparisonDefaultRuns == 2

UroboroTimeoutSec == 45

UroboroRuns == 2

LowSpecTimeoutSec == 60

TimeoutMs(t) ==
  CASE t = "lowspec" -> LowSpecTimeoutSec * 1000
    [] t = "comparison" -> ComparisonTimeoutSec * 1000
    [] t = "uroboro" -> UroboroTimeoutSec * 1000

\* The repetition counts a run can have: the low-spec loop has no repetition,
\* the uroboro tester's count is fixed, the comparison tool's is configurable.
RunChoices(t) ==
  CASE t = "lowspec" -> {1}
    [] t = "comparison" -> 1 .. Min(ComparisonDefaultRuns, MaxRuns)
    [] t = "uroboro" -> {Min(UroboroRuns, MaxRuns)}

----------------------------------------------------------------------------
(* Hardware profile (low-spec benchmark) *)

\* The table with "or" between the two conditions of each row.
inferThermalProfileEither(cores, totalRAM) ==
  IF cores <= 2 \/ totalRAM <= 4096 THEN "mobile"
  ELSE IF cores <= 4 \/ totalRAM <= 8192 THEN "laptop"
  ELSE IF cores <= 8 \/ totalRAM <= 16384 THEN "desktop"
  ELSE "server"

inferThermalProfile(cores, totalRAM) ==
  IF cores <= 2 /\ totalRAM <= 4096 THEN "mobile"
  ELSE IF cores <= 4 /\ totalRAM <= 8192 THEN "laptop"
  ELSE IF cores <= 8 /\ totalRAM <= 16384 THEN "desktop"
  ELSE "server"

inferPowerProfile(thermal) ==
  IF thermal = "mobile" \/ thermal = "laptop" THEN "battery" ELSE "plugged"

profileHardware(cores, totalRAM, availableRAM) ==
  LET th == inferThermalProfile(cores, totalRAM)
  IN [cpuCores |-> cores, totalRAM |-> totalRAM, availableRAM |-> availableRAM,
      thermalProfile |-> th, powerProfile |-> inferPowerProfile(th)]

\* The hosts that are explored: (cores, total RAM, available RAM).
Hosts == { <<4, 8192, 4096>>, <<8, 16384, 12000>> }

NoProfile == [cpuCores |-> 0, totalRAM |-> 0, availableRAM |-> 0,
              thermalProfile |-> "none", powerProfile |-> "none"]

----------------------------------------------------------------------------
(* Output texts and what the external runtime can be observed to do *)

NoOutput == [pad |-> 0, len |-> 0, marks |-> {}, terms |-> 0, termsClean |-> 0]

OutTiny == [pad |-> 1, len |-> 10, marks |-> {}, terms |-> 0, termsClean |-> 0]

OutNote == [pad |-> 2, len |-> 120, marks |-> {}, terms |-> 1, termsClean |-> 1]

OutDoc == [pad |-> 0, len |-> 400, marks |-> {"##", "# ", "- "}, terms |-> 2, termsClean |-> 1]

\* strings.TrimSpace: the surrounding whitespace is removed.
TrimSpace(o) == [o EXCEPT !.pad = 0]

\* len() of a text.
StrLen(o) == o.pad + o.len

\* What one invocation can be observed to do: how the process ends, after how
\* long, what it wrote, and the two readings of available memory around it.
Observations(t) ==
  IF t = "lowspec"
  THEN { [kind |-> "exit", ms |-> 500, out |-> NoOutput, memBefore |-> 4000, memAfter |-> 4000],
         [kind |-> "timeout", ms |-> TimeoutMs(t), out |-> NoOutput, memBefore |-> 4000, memAfter |-> 400],
         [kind |-> "signal", ms |-> 500, out |-> NoOutput, memBefore |-> 4000, memAfter |-> 400],
         [kind |-> "ok", ms |-> 2000, out |-> OutNote, memBefore |-> 4000, memAfter |-> 400],
         [kind |-> "ok", ms |-> 2000, out |-> OutNote, memBefore |-> 400, memAfter |-> 4000],
         [kind |-> "ok", ms |-> 20000, out |-> OutDoc, memBefore |-> 4000, memAfter |-> 400],
         [kind |-> "ok", ms |-> 40000, out |-> OutTiny, memBefore |-> 400, memAfter |-> 4000],
         [kind |-> "ok", ms |-> 50000, out |-> OutTiny, memBefore |-> 400, memAfter |-> 4000] }
  ELSE IF t = "comparison"
  THEN { [kind |-> "exit", ms |-> 500, out |-> NoOutput, memBefore |-> 0, memAfter |-> 0],
         [kind |-> "timeout", ms |-> TimeoutMs(t), out |-> NoOutput, memBefore |-> 0, memAfter |-> 0],
         [kind |-> "signal", ms |-> 500, out |-> NoOutput, memBefore |-> 0, memAfter |-> 0],
         [kind |-> "ok", ms |-> 2000, out |-> OutNote, memBefore |-> 0, memAfter |-> 0] }
  ELSE { [kind |-> "exit", ms |-> 500, out |-> NoOutput, memBefore |-> 0, memAfter |-> 0],
         [kind |-> "timeout", ms |-> TimeoutMs(t), out |-> NoOutput, memBefore |-> 0, memAfter |-> 0],
         [kind |-> "ok", ms |-> 2000, out |-> OutNote, memBefore |-> 0, memAfter |-> 0],
         [kind |-> "ok", ms |-> 20000, out |-> OutDoc, memBefore |-> 0, memAfter |-> 0] }

\* err.Error() of cmd.Output() for each way the process can end: a non-zero
\* exit, the kill at the context's deadline, and a kill by another sender of
\* SIGKILL (the kernel's out-of-memory killer) before the deadline.  All three
\* are an *exec.ExitError; only its text is kept.
ErrorText(kind) ==
  CASE kind = "exit" -> "exit status 1"
    [] kind = "timeout" -> "signal: killed"
    [] kind = "signal" -> "signal: killed"
    [] OTHER -> ""

----------------------------------------------------------------------------
(* Low-spec benchmark: per-result assessments *)

assessOOMRisk(memoryUsed, availableMemory) ==
  IF memoryUsed <= 0 \/ availableMemory <= 0 THEN "unknown"
  ELSE IF 2 * memoryUsed < availableMemory THEN "low"
  ELSE IF 5 * memoryUsed < 4 * availableMemory THEN "medium"
  ELSE "high"

assessBatteryImpact(responseTime, memoryUsed, powerProfile) ==
  IF powerProfile # "battery" THEN "n/a"
  ELSE LET impact == responseTime + memoryUsed
       IN IF impact < 5000 THEN "minimal"
          ELSE IF impact < 15000 THEN "moderate"
          ELSE "high"

\* Flags a response time that only reaches twice the expected time.
assessThermalThrottlingInclusive(responseTime, thermalProfile) ==
  LET expectedTime == CASE thermalProfile = "mobile" -> 10000
                        [] thermalProfile = "laptop" -> 8000
                        [] thermalProfile = "desktop" -> 5000
                        [] OTHER -> 3000
  IN responseTime >= expectedTime * 2

assessThermalThrottling(responseTime, thermalProfile) ==
  LET expectedTime == CASE thermalProfile = "mobile" -> 10000
                        [] thermalProfile = "laptop" -> 8000
                        [] thermalProfile = "desktop" -> 5000
                        [] OTHER -> 3000
  IN responseTime > expectedTime * 2

\* The bands with their upper ends excluded.
assessOutputQualityExclusive(output, useCase) ==
  LET length == StrLen(output)
      expectedLength == CASE useCase = "capture" -> 100
                          [] useCase = "summary" -> 200
                          [] useCase = "social" -> 150
                          [] useCase = "devlog" -> 400
                          [] useCase = "blog" -> 600
                          [] OTHER -> 200
  IN IF 10 * length < 3 * expectedLength THEN 1000
     ELSE IF 10 * length < 7 * expectedLength THEN 2500
     ELSE IF 2 * length < 3 * expectedLength THEN 4000
     ELSE IF length < 2 * expectedLength THEN 3000
     ELSE 2000

assessOutputQuality(output, useCase) ==
  LET length == StrLen(output)
      expectedLength == CASE useCase = "capture" -> 100
                          [] useCase = "summary" -> 200
                          [] useCase = "social" -> 150
                          [] useCase = "devlog" -> 400
                          [] useCase = "blog" -> 600
                          [] OTHER -> 200
  IN IF 10 * length < 3 * expectedLength THEN 1000
     ELSE IF 10 * length < 7 * expectedLength THEN 2500
     ELSE IF 2 * length <= 3 * expectedLength THEN 4000
     ELSE IF length <= 2 * expectedLength THEN 3000
     ELSE 2000

\* The time score without its floor of 1.0.
calculateUsabilityScoreNoFloor(responseTime, qualityScore, priority) ==
  LET timeScore == 5000 - (responseTime \div 10)
  IN CASE priority = "speed" -> (7 * timeScore + 3 * qualityScore) \div 10
       [] priority = "quality" -> (3 * timeScore + 7 * qualityScore) \div 10
       [] priority = "memory" -> (5 * timeScore + 5 * qualityScore) \div 10
       [] OTHER -> (5 * timeScore + 5 * qualityScore) \div 10

calculateUsabilityScore(responseTime, qualityScore, priority) ==
  LET timeScore == Max(1000, 5000 - (responseTime \div 10))
  IN CASE priority = "speed" -> (7 * timeScore + 3 * qualityScore) \div 10
       [] priority = "quality" -> (3 * timeScore + 7 * qualityScore) \div 10
       [] priority = "memory" -> (5 * timeScore + 5 * qualityScore) \div 10
       [] OTHER -> (5 * timeScore + 5 * qualityScore) \div 10

\* runLowSpecTest from the point where the process has ended.
runLowSpecTest(model, scenario, prof, memBefore, obs) ==
  LET peak == obs.memAfter - memBefore
      base == [model |-> model, testCase |-> scenario.name, prompt |-> scenario.prompt,
               output |-> NoOutput, success |-> FALSE, error |-> "",
               responseTime |-> obs.ms, tokensPerSecond |-> 0, peakMemoryMB |-> peak,
               memoryEfficiency |-> 0, thermalThrottling |-> FALSE, swapUsed |-> FALSE,
               oomRisk |-> "", batteryImpact |-> "", outputLength |-> 0,
               qualityScore |-> 0, usabilityScore |-> 0]
      out == TrimSpace(obs.out)
      quality == assessOutputQuality(out, scenario.useCase)
  IN IF obs.kind # "ok"
     THEN [base EXCEPT !.error = ErrorText(obs.kind),
                       !.oomRisk = assessOOMRisk(peak, prof.availableRAM)]
     ELSE [base EXCEPT
             !.success = TRUE,
             !.output = out,
             !.outputLength = StrLen(out),
             !.tokensPerSecond = IF StrLen(out) > 0 /\ obs.ms > 0
                                 THEN (StrLen(out) * 250) \div obs.ms ELSE 0,
             !.oomRisk = assessOOMRisk(peak, prof.availableRAM),
             !.batteryImpact = assessBatteryImpact(obs.ms, peak, prof.powerProfile),
             !.swapUsed = (peak > prof.availableRAM),
             !.thermalThrottling = assessThermalThrottling(obs.ms, prof.thermalProfile),
             !.memoryEfficiency = IF peak > 0 THEN (StrLen(out) * 1000) \div peak ELSE 0,
             !.qualityScore = quality,
             !.usabilityScore = calculateUsabilityScore(obs.ms, quality, scenario.priority)]

----------------------------------------------------------------------------
(* Comparison tool and uroboro tester: per-result construction *)

testModel(model, testCase, obs) ==
  LET base == [model |-> model, prompt |-> testCase.prompt, output |-> NoOutput,
               responseTime |-> obs.ms, success |-> FALSE, error |-> "",
               outputLength |-> 0]
      out == TrimSpace(obs.out)
  IN IF obs.kind # "ok"
     THEN [base EXCEPT !.error = ErrorText(obs.kind)]
     ELSE [base EXCEPT !.success = TRUE, !.output = out, !.outputLength = StrLen(out)]

evaluateQuality(result, useCase) ==
  IF ~result.success THEN 0
  ELSE LET length == StrLen(result.output)
           lengthOk == \/ (useCase = "capture" /\ length > 50 /\ length < 300)
                       \/ (useCase = "social" /\ length > 100 /\ length < 500)
                       \/ (useCase \in {"devlog", "blog"} /\ length > 300)
           formatOk == "##" \in result.output.marks \/ "- " \in result.output.marks
       IN Min(5, 3 + (IF lengthOk THEN 1 ELSE 0) + (IF formatOk THEN 1 ELSE 0))

checkFormatCompliance(output, useCase) ==
  CASE useCase \in {"devlog", "blog"} -> "##" \in output.marks \/ "# " \in output.marks
    [] useCase = "social" -> "##" \notin output.marks /\ StrLen(output) < 500
    [] useCase = "capture" -> StrLen(output) > 20 /\ StrLen(output) < 300
    [] OTHER -> TRUE

checkTechnicalAccuracy(output) ==
  IF output.terms = 0 THEN TRUE ELSE 5 * output.termsClean >= 4 * output.terms

\* testModelWithUroboroCase followed by the three assessments of the loop body.
testModelWithUroboroCase(model, testCase, obs) ==
  LET base == [model |-> model, useCase |-> testCase.useCase, testName |-> testCase.name,
               input |-> testCase.prompt, output |-> NoOutput, responseTime |-> obs.ms,
               success |-> FALSE, error |-> "", qualityScore |-> 0,
               formatCompliance |-> FALSE, technicalAccuracy |-> FALSE]
      raw == IF obs.kind # "ok"
             THEN [base EXCEPT !.error = ErrorText(obs.kind)]
             ELSE [base EXCEPT !.success = TRUE, !.output = TrimSpace(obs.out)]
  IN [raw EXCEPT !.qualityScore = evaluateQuality(raw, testCase.useCase),
                 !.formatCompliance = checkFormatCompliance(raw.output, testCase.useCase),
                 !.technicalAccuracy = checkTechnicalAccuracy(raw.output)]

----------------------------------------------------------------------------
(* Go maps: a map keeps no order, and every range over it visits the keys  *)
(* in an order of the runtime's choosing.                                  *)

Range(s) == {s[i] : i \in 1 .. Len(s)}

Perms(S) == {p \in [1 .. Cardinality(S) -> S] : \A i, j \in 1 .. Cardinality(S) : p[i] = p[j] => i = j}

----------------------------------------------------------------------------
(* Comparison tool: summary *)

inferUseCase(prompt) ==
  IF "blog post" \in prompt \/ "engaging blog" \in prompt THEN "blog"
  ELSE IF "social media" \in prompt \/ "engaging social" \in prompt THEN "social"
  ELSE IF "devlog" \in prompt \/ "development log" \in prompt THEN "devlog"
  ELSE IF "summary" \in prompt \/ "concise" \in prompt THEN "capture"
  ELSE "general"

calculateModelStats(rs) ==
  LET IsOk(r) == r.success
      ok == SelectSeq(rs, IsOk)
      successCount == Len(ok)
      totalResponseTime == SeqSum([i \in 1 .. Len(ok) |-> ok[i].responseTime])
      totalOutputLength == SeqSum([i \in 1 .. Len(ok) |-> ok[i].outputLength])
  IN [totalTests |-> Len(rs),
      successRate |-> <<successCount, Len(rs)>>,
      avgResponseTime |-> IF successCount > 0 THEN totalResponseTime \div successCount ELSE 0,
      avgOutputLength |-> IF successCount > 0 THEN <<totalOutputLength, successCount>> ELSE <<0, 1>>]

\* The per-model performance entry of findBestModel after "Finalize averages".
ModelPerf(rs, model) ==
  LET Mine(r) == r.model = model
      mine == SelectSeq(rs, Mine)
      IsOk(r) == r.success
      ok == SelectSeq(mine, IsOk)
  IN [model |-> model, count |-> Len(mine), succ |-> Len(ok),
      avgResponseTime |-> IF Len(ok) > 0
                          THEN SeqSum([i \in 1 .. Len(ok) |-> ok[i].responseTime]) \div Len(ok)
                          ELSE 0]

\* score(a) > score(b) for score = successRate - avgResponseTime.Seconds()/100,
\* compared exactly after multiplying by 100000 * a.count * b.count.
ScoreGreater(a, b) ==
  100000 * a.succ * b.count - a.avgResponseTime * a.count * b.count
    > 100000 * b.succ * a.count - b.avgResponseTime * a.count * b.count

RECURSIVE BestPerf(_, _, _, _)
BestPerf(rs, order, i, best) ==
  IF i > Len(order) THEN best
  ELSE LET perf == ModelPerf(rs, order[i])
       IN BestPerf(rs, order, i + 1, IF ScoreGreater(perf, best) THEN perf ELSE best)

\* findBestModel; order is the order in which the range over modelPerf
\* visits the models.  The start entry stands for bestScore = -1.0.
findBestModel(rs, order) ==
  IF Len(rs) = 0 THEN ""
  ELSE BestPerf(rs, order, 1, [model |-> "", count |-> 1, succ |-> -1, avgResponseTime |-> 0]).model

ModelsOf(rs) == {rs[i].model : i \in 1 .. Len(rs)}

\* generateSummary; orders gives, for each use case, the order of the range
\* over that use case's modelPerf map.
generateSummary(rs, orders) ==
  LET models == ModelsOf(rs)
      useCases == {inferUseCase(rs[i].prompt) : i \in 1 .. Len(rs)}
      Group(u) == LET In(r) == inferUseCase(r.prompt) = u IN SelectSeq(rs, In)
      OfModel(m) == LET Mine(r) == r.model = m IN SelectSeq(rs, Mine)
      winners == {u \in useCases : findBestModel(Group(u), orders[u]) # ""}
  IN [modelStats |-> [m \in models |-> calculateModelStats(OfModel(m))],
      bestModel |-> [u \in winners |-> findBestModel(Group(u), orders[u])]]

ComparisonOrders(rs) ==
  [{inferUseCase(rs[i].prompt) : i \in 1 .. Len(rs)} -> Perms(ModelsOf(rs))]

----------------------------------------------------------------------------
(* Uroboro tester: summary *)

\* Score of one successful result, in ten-thousandths of a point:
\* quality*0.5 + speedScore*0.3 + formatScore*0.2.
TestScore(r) ==
  LET speedScore == Max(1000, 5000 - (r.responseTime \div 10))
      formatScore == IF r.formatCompliance THEN 5 ELSE 0
  IN r.qualityScore * 5000 + speedScore * 3 + formatScore * 2000

\* x.score > y.score where a score is <<sum of test scores, successful runs>>.
RankGreater(x, y) == x.score[1] * y.score[2] > y.score[1] * x.score[2]

Swap(s, i, j) == [s EXCEPT ![i] = s[j], ![j] = s[i]]

RECURSIVE SortInner(_, _, _)
SortInner(r, i, j) ==
  IF j > Len(r) THEN r
  ELSE SortInner(IF RankGreater(r[j], r[i]) THEN Swap(r, i, j) ELSE r, i, j + 1)

RECURSIVE SortOuter(_, _)
SortOuter(r, i) ==
  IF i > Len(r) - 1 THEN r ELSE SortOuter(SortInner(r, i, i + 1), i + 1)

RECURSIVE Rankings(_, _, _)
Rankings(rs, order, i) ==
  IF i > Len(order) THEN <<>>
  ELSE LET Mine(r) == r.model = order[i]
           IsOk(r) == r.success
           ok == SelectSeq(SelectSeq(rs, Mine), IsOk)
           totalScore == SeqSum([k \in 1 .. Len(ok) |-> TestScore(ok[k])])
       IN (IF Len(ok) > 0
           THEN << [model |-> order[i], score |-> <<totalScore, Len(ok)>>] >>
           ELSE <<>>) \o Rankings(rs, order, i + 1)

\* analyzeUseCaseResults; order is the order of the range over modelResults.
analyzeUseCaseResults(rs, order) == SortOuter(Rankings(rs, order, 1), 1)

RECURSIVE Fastest(_, _, _)
Fastest(rs, i, best) ==
  IF i > Len(rs) THEN best.model
  ELSE Fastest(rs, i + 1,
               IF rs[i].success /\ rs[i].responseTime < best.time
               THEN [model |-> rs[i].model, time |-> rs[i].responseTime] ELSE best)

RECURSIVE MostReliable(_, _, _, _)
MostReliable(rs, order, i, best) ==
  IF i > Len(order) THEN best.model
  ELSE LET Mine(r) == r.model = order[i]
           IsOk(r) == r.success
           mine == SelectSeq(rs, Mine)
           rel == [model |-> order[i], success |-> Len(SelectSeq(mine, IsOk)), total |-> Len(mine)]
       IN MostReliable(rs, order, i + 1,
                       IF rel.success * best.total > best.success * rel.total THEN rel ELSE best)

\* generatePerformanceRecommendations; order is the order of the range over
\* modelReliability.  One hour is 3600000 ms.
generatePerformanceRecommendations(rs, order) ==
  [fastest |-> Fastest(rs, 1, [model |-> "", time |-> 3600000]),
   most_reliable |-> MostReliable(rs, order, 1, [model |-> "", success |-> 0, total |-> 1]),
   general |-> "Consider using task-specific models for best results"]

FallbackChain == <<"mistral:latest", "llama2:7b", "orca-mini:3b">>

UseCaseTimeout(u) ==
  CASE u = "capture" -> 15
    [] u = "social" -> 30
    [] u = "devlog" -> 45
    [] u = "blog" -> 60

generateConfigRecommendation(best) ==
  [primaryModel |-> IF "capture" \in DOMAIN best THEN best["capture"] ELSE "mistral:latest",
   fallbackChain |-> FallbackChain,
   useCaseModels |-> best,
   timeoutConfig |-> [u \in DOMAIN best \cap {"capture", "social", "devlog", "blog"} |-> UseCaseTimeout(u)],
   environmentVars |-> [k \in {<<"UROBORO_MODEL">>} \cup {<<"UROBORO_MODEL", u>> : u \in DOMAIN best} |->
                          IF Len(k) = 1
                          THEN (IF "capture" \in DOMAIN best THEN best["capture"] ELSE "mistral:latest")
                          ELSE best[k[2]]]]

\* generateUroboroSummary; orders gives the order of every range over a map
\* of models: one per use case, and "reliability" for modelReliability.
generateUroboroSummary(rs, orders) ==
  LET useCases == {rs[i].useCase : i \in 1 .. Len(rs)}
      Group(u) == LET In(r) == r.useCase = u IN SelectSeq(rs, In)
      rankings == [u \in useCases |-> analyzeUseCaseResults(Group(u), orders[u])]
      best == [u \in {v \in useCases : Len(rankings[v]) > 0} |-> rankings[u][1].model]
  IN [bestModelPerUseCase |-> best,
      performanceRecommendations |-> generatePerformanceRecommendations(rs, orders["reliability"]),
      qualityRankings |-> rankings,
      uroboroConfig |-> generateConfigRecommendation(best)]

UroboroOrders(rs) ==
  [{rs[i].useCase : i \in 1 .. Len(rs)} \cup {"reliability"} -> Perms(ModelsOf(rs))]

----------------------------------------------------------------------------
(* Low-spec benchmark: summary *)

\* The adjusted score of one result inside findOptimalModelForUseCase.
AdjustedScore(r, prof) ==
  r.usabilityScore
    - (IF prof.availableRAM < 8192 /\ r.oomRisk = "high" THEN 2000 ELSE 0)
    - (IF r.batteryImpact = "high" THEN 1000 ELSE 0)
    + (IF ~r.thermalThrottling THEN 500 ELSE 0)

RECURSIVE BestByAdjusted(_, _, _, _)
BestByAdjusted(rs, prof, i, best) ==
  IF i > Len(rs) THEN best.model
  ELSE BestByAdjusted(rs, prof, i + 1,
                      IF AdjustedScore(rs[i], prof) > best.score
                      THEN [model |-> rs[i].model, score |-> AdjustedScore(rs[i], prof)]
                      ELSE best)

findOptimalModelForUseCase(rs, prof) ==
  IF Len(rs) = 0 THEN "" ELSE BestByAdjusted(rs, prof, 1, [model |-> "", score |-> 0])

generateMemoryRecommendations(prof) ==
  IF prof.availableRAM < 4096
  THEN <<"Consider using 3B models only for this device",
         "Enable swap file (4GB minimum) for stability",
         "Close other applications during AI processing">>
  ELSE IF prof.availableRAM < 8192
  THEN <<"7B models should work well with careful memory management",
         "Monitor memory usage and consider swap for larger models">>
  ELSE <<"Your device can handle most models efficiently",
         "Consider running multiple models for different use cases">>

generatePerformanceInsights(rs) ==
  LET IsOk(r) == r.success
      ok == SelectSeq(rs, IsOk)
      Throttled(r) == r.thermalThrottling
      throttlingCount == Len(SelectSeq(ok, Throttled))
      avgTime == SeqSum([i \in 1 .. Len(ok) |-> ok[i].responseTime]) \div Len(ok)
  IN IF Len(ok) = 0
     THEN << <<"No successful tests - device may be too constrained">> >>
     ELSE << <<"Average response time", avgTime>> >>
          \o (IF throttlingCount > 0
              THEN << <<"Thermal throttling detected", throttlingCount, Len(ok)>> >>
              ELSE <<>>)

\* Average of qualityScore * tokensPerSecond / peakMemoryMB over the
\* successful results with a positive memory delta (rounded down).
calculateCostEfficiencyScore(rs) ==
  LET Counts(r) == r.success /\ r.peakMemoryMB > 0
      used == SelectSeq(rs, Counts)
      Eff(r) == (r.qualityScore * r.tokensPerSecond) \div r.peakMemoryMB
  IN IF Len(used) = 0 THEN 0
     ELSE SeqSum([i \in 1 .. Len(used) |-> Eff(used[i])]) \div Len(used)

RECURSIVE BestByUsability(_, _, _)
BestByUsability(rs, i, best) ==
  IF i > Len(rs) THEN best.model
  ELSE BestByUsability(rs, i + 1,
                       IF rs[i].success /\ rs[i].usabilityScore > best.score
                       THEN [model |-> rs[i].model, score |-> rs[i].usabilityScore]
                       ELSE best)

\* The small-memory settings also for exactly 8192 MB.
generateRecommendedConfigInclusive(rs, prof) ==
  LET small == prof.availableRAM <= 8192
      flash == prof.thermalProfile = "mobile" \/ prof.thermalProfile = "laptop"
  IN [primaryModel |-> BestByUsability(rs, 1, [model |-> "", score |-> 0]),
      fallbackModel |-> "",
      contextLength |-> IF small THEN 2048 ELSE 4096,
      concurrentRequests |-> IF small THEN 1 ELSE 2,
      memoryBuffer |-> IF small THEN 1024 ELSE 2048,
      swapRecommendation |-> IF small THEN "Enable 4GB swap file" ELSE "Optional",
      environmentVars |-> [k \in {"OLLAMA_MAX_LOADED_MODELS", "OLLAMA_NUM_PARALLEL"}
                                   \cup (IF flash THEN {"OLLAMA_FLASH_ATTENTION"} ELSE {}) |-> "1"]]

generateRecommendedConfig(rs, prof) ==
  LET small == prof.availableRAM < 8192
      flash == prof.thermalProfile = "mobile" \/ prof.thermalProfile = "laptop"
  IN [primaryModel |-> BestByUsability(rs, 1, [model |-> "", score |-> 0]),
      fallbackModel |-> "",
      contextLength |-> IF small THEN 2048 ELSE 4096,
      concurrentRequests |-> IF small THEN 1 ELSE 2,
      memoryBuffer |-> IF small THEN 1024 ELSE 2048,
      swapRecommendation |-> IF small THEN "Enable 4GB swap file" ELSE "Optional",
      environmentVars |-> [k \in {"OLLAMA_MAX_LOADED_MODELS", "OLLAMA_NUM_PARALLEL"}
                                   \cup (IF flash THEN {"OLLAMA_FLASH_ATTENTION"} ELSE {}) |-> "1"]]

generateLowSpecSummary(rs, prof) ==
  LET IsOk(r) == r.success
      ok == SelectSeq(rs, IsOk)
      keys == {ToLower(ok[i].testCase) : i \in 1 .. Len(ok)}
      Group(u) == LET In(r) == ToLower(r.testCase) = u IN SelectSeq(ok, In)
      winners == {u \in keys : findOptimalModelForUseCase(Group(u), prof) # ""}
  IN [optimalModels |-> [u \in winners |-> findOptimalModelForUseCase(Group(u), prof)],
      memoryRecommendations |-> generateMemoryRecommendations(prof),
      performanceInsights |-> generatePerformanceInsights(rs),
      costEfficiencyScore |-> calculateCostEfficiencyScore(rs),
      recommendedConfig |-> generateRecommendedConfig(rs, prof)]

----------------------------------------------------------------------------
(* Availability check *)

\* Pairs <<a, b>> of distinct model names where a occurs inside b.
SubstringPairs == { <<"mistral:latest", "dolphin-mistral:latest">> }

\* strings.Contains(listing, model) for the output of "ollama list".
ListingContains(listing, model) ==
  \E n \in listing : n = model \/ <<model, n>> \in SubstringPairs

\* checkModelAvailability / checkAvailableModels: the candidates found in the
\* listing, in candidate order; nothing when the query fails.
checkAvailableModels(ok, listing) ==
  LET Found(m) == ListingContains(listing, m)
  IN IF ok THEN SelectSeq(CandidateModels, Found) ELSE <<>>

\* The model names a listing can hold, in the order "ollama list" prints them.
ListedModels ==
  <<"mistral:latest", "orca-mini:3b", "dolphin-mistral:latest", "granite-embedding:latest">>

\* strings.Contains(modelName, "embedding")
IsEmbedding(m) == m = "granite-embedding:latest"

\* getAvailableModels: the names of the listing that are not embedding
\* models; nothing when the query fails.
getAvailableModels(ok, listing) ==
  LET Listed(m) == m \in listing /\ ~IsEmbedding(m)
  IN IF ok THEN SelectSeq(ListedModels, Listed) ELSE <<>>

AvailableModels(t, ok, listing) ==
  IF t = "lowspec" THEN getAvailableModels(ok, listing) ELSE checkAvailableModels(ok, listing)


\* A main without the fatal exit.
NeverFatal(av) == FALSE

\* main: log.Fatal when no model is available.
NoModelsAvailable(av) == Len(av) = 0

----------------------------------------------------------------------------
(* The invocation loop *)


\* A launch that does not wait for the process: cmd.Start() without Wait().
PcAfterStartOnly(t) == "loop"

\* cmd.Output() starts the process and blocks until it has ended.
PcAfterSpawn(t) == "running"


\* A loop that drops the result of a failed invocation.
AppendResultIfOk(rs, r) == IF r.success THEN Append(rs, r) ELSE rs

\* results = append(results, result)
AppendResult(rs, r) == Append(rs, r)


\* A run loop with the bound off by one (run <= Runs).
AdvanceOneRunTooMany(m, s, r, nRuns, nScenarios) ==
  IF r <= nRuns THEN <<m, s, r + 1>>
  ELSE IF s < nScenarios THEN <<m, s + 1, 1>>
  ELSE <<m + 1, 1, 1>>

\* The loop headers: runs innermost, then scenarios, then models.
Advance(m, s, r, nRuns, nScenarios) ==
  IF r < nRuns THEN <<m, s, r + 1>>
  ELSE IF s < nScenarios THEN <<m, s + 1, 1>>
  ELSE <<m + 1, 1, 1>>

\* The result one ended invocation produces.
BuildResult(t, model, scenario, prof, memBefore, obs) ==
  CASE t = "lowspec" -> runLowSpecTest(model, scenario, prof, memBefore, obs)
    [] t = "comparison" -> testModel(model, scenario, obs)
    [] t = "uroboro" -> testModelWithUroboroCase(model, scenario, obs)

\* The low-spec loop sleeps after every invocation; the other two do not.
PausesBetweenInvocations(t) == t = "lowspec"

NoSummary == [none |-> TRUE]

\* No assessment function has been applied on its own.
NoCall == [fn |-> "none"]

NotSaved == [state |-> "none"]

SaveFailed == [state |-> "failed"]

\* A record that keeps only the results of successful invocations.
PersistedSuccessfulOnly(rs, sm) ==
  LET IsOk(r) == r.success
  IN [state |-> "written", results |-> SelectSeq(rs, IsOk), summary |-> sm]

\* The document that is marshalled and written: the result list as the loop
\* returned it, and the summary.
PersistedRecord(rs, sm) == [state |-> "written", results |-> rs, summary |-> sm]

Init ==
  /\ tool \in Tools
  /\ profile \in IF tool = "lowspec"
                 THEN {profileHardware(h[1], h[2], h[3]) : h \in Hosts}
                 ELSE {NoProfile}
  /\ listOk \in BOOLEAN
  /\ installed \in SUBSET Range(CandidateModels)
  /\ runs \in RunChoices(tool)
  /\ available = <<>>
  /\ pc = "start"
  /\ mi = 1 /\ si = 1 /\ ri = 1
  /\ inFlight = 0
  /\ spawns = <<>>
  /\ initialMemory = 0
  /\ finalMemory = 0
  /\ results = <<>>
  /\ summary = NoSummary
  /\ saved = NotSaved
  /\ reported = {}
  /\ call = NoCall

\* main up to the loop: the availability check and the fatal exit.
CheckModels ==
  /\ pc = "start"
  /\ available' = AvailableModels(tool, listOk, installed)
  /\ pc' = IF NoModelsAvailable(available') THEN "fatal" ELSE "loop"
  /\ UNCHANGED <<call, finalMemory, tool, profile, listOk, installed, runs, mi, si, ri, inFlight,
                 spawns, initialMemory, results, summary, saved, reported>>

\* The deadline of the availability query passes while `ollama list` is
\* still running: the context kills it and the query counts as failed.  Only
\* the comparison tool (5 s) and the uroboro tester (10 s) run the query under
\* a context; the low-spec tool's exec.Command has none, so nothing ends its
\* wait but the process itself.
ListingKilledByTimeout ==
  /\ pc = "start"
  /\ tool # "lowspec"
  /\ available' = AvailableModels(tool, FALSE, installed)
  /\ pc' = IF NoModelsAvailable(available') THEN "fatal" ELSE "loop"
  /\ UNCHANGED <<call, finalMemory, tool, profile, listOk, installed, runs, mi, si, ri, inFlight,
                 spawns, initialMemory, results, summary, saved, reported>>

\* The head of the loop body: memory is sampled (low-spec) and the process
\* is started.
StartInvocation ==
  /\ pc = "loop"
  /\ mi <= Len(available)
  /\ initialMemory' \in {o.memBefore : o \in Observations(tool)}
  /\ inFlight' = inFlight + 1
  /\ spawns' = Append(spawns, <<available[mi], Scenarios(tool)[si].name, ri>>)
  /\ pc' = PcAfterSpawn(tool)
  /\ UNCHANGED <<call, finalMemory, tool, profile, listOk, installed, available, runs, mi, si, ri,
                 results, summary, saved, reported>>

\* The process has ended in the way obs describes: the result is built and
\* appended, and the loop moves on (after the pause, in the low-spec loop).
Complete(obs) ==
  /\ pc = "running"
  /\ obs.memBefore = initialMemory
  /\ finalMemory' = obs.memAfter
  /\ inFlight' = inFlight - 1
  /\ results' = AppendResult(results,
                  BuildResult(tool, available[mi], Scenarios(tool)[si], profile, initialMemory, obs))
  /\ IF PausesBetweenInvocations(tool)
     THEN /\ pc' = "pause"
          /\ UNCHANGED <<mi, si, ri>>
     ELSE /\ pc' = "loop"
          /\ LET nxt == Advance(mi, si, ri, runs, Len(Scenarios(tool)))
             IN mi' = nxt[1] /\ si' = nxt[2] /\ ri' = nxt[3]
  /\ UNCHANGED <<call, tool, profile, listOk, installed, available, runs, spawns,
                 initialMemory, summary, saved, reported>>

ProcessExitsOk == \E obs \in Observations(tool) : obs.kind = "ok" /\ Complete(obs)

ProcessExitsWithError == \E obs \in Observations(tool) : obs.kind = "exit" /\ Complete(obs)

ProcessKilledByTimeout == \E obs \in Observations(tool) : obs.kind = "timeout" /\ Complete(obs)

ProcessKilledBySignal == \E obs \in Observations(tool) : obs.kind = "signal" /\ Complete(obs)

\* time.Sleep(2 * time.Second) at the end of the low-spec loop body.
Pause ==
  /\ pc = "pause"
  /\ pc' = "loop"
  /\ LET nxt == Advance(mi, si, ri, runs, Len(Scenarios(tool)))
     IN mi' = nxt[1] /\ si' = nxt[2] /\ ri' = nxt[3]
  /\ UNCHANGED <<call, finalMemory, tool, profile, listOk, installed, available, runs, inFlight,
                 spawns, initialMemory, results, summary, saved, reported>>

\* The summary a tool computes from its results; orders are the orders in
\* which its ranges over maps of models visit the keys.
Summarize(t, rs, prof, orders) ==
  CASE t = "lowspec" -> generateLowSpecSummary(rs, prof)
    [] t = "comparison" -> generateSummary(rs, orders)
    [] t = "uroboro" -> generateUroboroSummary(rs, orders)

MapOrders(t, rs) ==
  CASE t = "lowspec" -> {<<>>}
    [] t = "comparison" -> ComparisonOrders(rs)
    [] t = "uroboro" -> UroboroOrders(rs)

\* The range over the models is exhausted.
LoopFinished == pc = "loop" /\ mi > Len(available)

\* A ranking that sorts the slice it was handed: successful results first.
ResultsRankedInPlace(rs) ==
  LET IsOk(r) == r.success
      IsFailed(r) == ~r.success
  IN SelectSeq(rs, IsOk) \o SelectSeq(rs, IsFailed)

\* The caller's result slice after the summary functions have run: they
\* share its backing array, and they only read it.
ResultsAfterSummary(rs) == rs

\* The loop has ended: the summary is generated.
GenerateSummary ==
  /\ LoopFinished
  /\ \E orders \in MapOrders(tool, results) :
       summary' = Summarize(tool, results, profile, orders)
  /\ results' = ResultsAfterSummary(results)
  /\ pc' = "save"
  /\ UNCHANGED <<call, finalMemory, tool, profile, listOk, installed, available, runs, mi, si, ri,
                 inFlight, spawns, initialMemory, saved, reported>>

\* saveBenchmark / saveResults / saveExperimentResults succeeds.
SaveSucceeds ==
  /\ pc = "save"
  /\ saved' = PersistedRecord(results, summary)
  /\ pc' = "report"
  /\ UNCHANGED <<call, finalMemory, tool, profile, listOk, installed, available, runs, mi, si, ri,
                 inFlight, spawns, initialMemory, results, summary, reported>>

\* The write fails: the error is logged and main goes on.
SaveFails ==
  /\ pc = "save"
  /\ saved' = SaveFailed
  /\ pc' = "report"
  /\ UNCHANGED <<call, finalMemory, tool, profile, listOk, installed, available, runs, mi, si, ri,
                 inFlight, spawns, initialMemory, results, summary, reported>>

\* The artifacts the last stage of main writes or prints.
Artifacts(t) ==
  CASE t = "lowspec" -> {"printed summary", "shell config", "json config", "setup instructions"}
    [] t = "comparison" -> {"printed summary"}
    [] t = "uroboro" -> {"printed summary", "shell config", "json config"}

Report ==
  /\ pc = "report"
  /\ reported' = Artifacts(tool)
  /\ pc' = "done"
  /\ UNCHANGED <<call, finalMemory, tool, profile, listOk, installed, available, runs, mi, si, ri,
                 inFlight, spawns, initialMemory, results, summary, saved>>

Next ==
  \/ CheckModels
  \/ ListingKilledByTimeout
  \/ StartInvocation
  \/ ProcessExitsOk
  \/ ProcessExitsWithError
  \/ ProcessKilledByTimeout
  \/ ProcessKilledBySignal
  \/ Pause
  \/ GenerateSummary
  \/ SaveSucceeds
  \/ SaveFails
  \/ Report

Spec == Init /\ [][Next]_vars

\* The steps the program takes by itself, and the kills its own deadlines
\* deliver, happen when they can.  Nothing makes an external process end of
\* its own accord, so CheckModels, ProcessExitsOk, ProcessExitsWithError and
\* ProcessKilledBySignal carry no fairness; nor does either outcome of the
\* save alone: the write returns, one way or the other.
FairSpec ==
  /\ Spec
  /\ WF_vars(ListingKilledByTimeout)
  /\ WF_vars(StartInvocation)
  /\ WF_vars(ProcessKilledByTimeout)
  /\ WF_vars(Pause)
  /\ WF_vars(GenerateSummary)
  /\ WF_vars(SaveSucceeds \/ SaveFails)
  /\ WF_vars(Report)

----------------------------------------------------------------------------
(* The assessment functions on their own: each is applied to inputs drawn  *)
(* from the sets below, and call holds the inputs and the value returned.  *)

progVars == <<tool, profile, listOk, installed, available, runs, pc,
              mi, si, ri, inFlight, spawns, initialMemory, finalMemory, results,
              summary, saved, reported>>

\* Memory deltas (MB) and available RAM (MB) around the thresholds of
\* assessOOMRisk.
AssessMemoryDeltas == {-3600, 0, 1000, 2047, 2048, 3276, 3277, 3600, 6000, 9600}

AssessRamSizes == {0, 4096, 12000}

\* Response times (ms) around twice each baseline of assessThermalThrottling.
AssessResponseTimes ==
  {0, 2000, 6000, 6001, 10000, 10001, 16000, 16001, 20000, 20001, 40000, 60000}

AssessThermalProfiles == {"mobile", "laptop", "desktop", "server", "sbc"}

AssessUseCases == {"capture", "summary", "social", "devlog", "blog", "general"}

\* Trimmed output texts: lengths around the bands of both scorers, with and
\* without a markdown header, with and without a technical term.
AssessOutputs ==
  {[pad |-> 0, len |-> l, marks |-> m, terms |-> t, termsClean |-> t] :
     l \in {0, 10, 29, 30, 69, 70, 120, 150, 151, 200, 201, 400, 1300},
     m \in {{}, {"##"}}, t \in {0, 1}}

AssessQualityScores == {1000, 2000, 2500, 3000, 4000, 5000}

AssessPriorities == {"speed", "quality", "memory", ""}

AssessInit ==
  /\ tool = "lowspec"
  /\ profile = NoProfile
  /\ listOk = TRUE
  /\ installed = {}
  /\ available = <<>>
  /\ runs = 1
  /\ pc = "assess"
  /\ mi = 1 /\ si = 1 /\ ri = 1
  /\ inFlight = 0
  /\ spawns = <<>>
  /\ initialMemory = 0
  /\ finalMemory = 0
  /\ results = <<>>
  /\ summary = NoSummary
  /\ saved = NotSaved
  /\ reported = {}
  /\ call = NoCall

ApplyAssessOOMRisk ==
  /\ \E memoryUsed \in AssessMemoryDeltas, availableMemory \in AssessRamSizes :
       call' = [fn |-> "assessOOMRisk", memoryUsed |-> memoryUsed,
                availableMemory |-> availableMemory,
                result |-> assessOOMRisk(memoryUsed, availableMemory)]
  /\ UNCHANGED progVars

ApplyAssessThermalThrottling ==
  /\ \E responseTime \in AssessResponseTimes, thermalProfile \in AssessThermalProfiles :
       call' = [fn |-> "assessThermalThrottling", responseTime |-> responseTime,
                thermalProfile |-> thermalProfile,
                result |-> assessThermalThrottling(responseTime, thermalProfile)]
  /\ UNCHANGED progVars

ApplyAssessOutputQuality ==
  /\ \E output \in AssessOutputs, useCase \in AssessUseCases :
       call' = [fn |-> "assessOutputQuality", success |-> TRUE, output |-> output,
                useCase |-> useCase, result |-> assessOutputQuality(output, useCase)]
  /\ UNCHANGED progVars

\* evaluateQuality is applied to every result of the uroboro loop: a failed
\* one has no output, a successful one has the trimmed output.  Its value is
\* in whole points; call holds it in thousandths like the other scores.
ApplyEvaluateQuality ==
  /\ \E success \in BOOLEAN, output \in AssessOutputs, useCase \in AssessUseCases :
       /\ ~success => output = NoOutput
       /\ call' = [fn |-> "evaluateQuality", success |-> success, output |-> output,
                   useCase |-> useCase,
                   result |-> 1000 * evaluateQuality([success |-> success, output |-> output],
                                                     useCase)]
  /\ UNCHANGED progVars

ApplyCalculateUsabilityScore ==
  /\ \E responseTime \in AssessResponseTimes, qualityScore \in AssessQualityScores,
        priority \in AssessPriorities :
       call' = [fn |-> "calculateUsabilityScore", responseTime |-> responseTime,
                qualityScore |-> qualityScore, priority |-> priority,
                result |-> calculateUsabilityScore(responseTime, qualityScore, priority)]
  /\ UNCHANGED progVars

\* Available RAM (MB) around the threshold of generateRecommendedConfig.
AssessConfigRam == {0, 4096, 8191, 8192, 12000}

AssessProfile(availableRAM, thermalProfile) ==
  [cpuCores |-> 4, totalRAM |-> 16384, availableRAM |-> availableRAM,
   thermalProfile |-> thermalProfile, powerProfile |-> inferPowerProfile(thermalProfile)]

\* Result lists a configuration is generated from: none, or the result of
\* one invocation.
AssessResultLists(prof) ==
  {<<>>} \cup {<<runLowSpecTest("mistral:latest", LowSpecScenarios[1], prof, o.memBefore, o)>> :
                 o \in Observations("lowspec")}

ApplyGenerateRecommendedConfig ==
  /\ \E availableRAM \in AssessConfigRam, thermalProfile \in AssessThermalProfiles :
       \E rs \in AssessResultLists(AssessProfile(availableRAM, thermalProfile)) :
         call' = [fn |-> "generateRecommendedConfig", availableRAM |-> availableRAM,
                  thermalProfile |-> thermalProfile, results |-> rs,
                  result |-> generateRecommendedConfig(rs, AssessProfile(availableRAM, thermalProfile))]
  /\ UNCHANGED progVars

\* Core counts and total RAM (MB) around the rows of inferThermalProfile.
AssessCores == {1, 2, 3, 4, 5, 8, 9, 16}

AssessTotalRam == {0, 2048, 4096, 4097, 8192, 8193, 16384, 16385}

ApplyProfileHardware ==
  /\ \E cores \in AssessCores, totalRAM \in AssessTotalRam :
       call' = [fn |-> "profileHardware", cpuCores |-> cores, totalRAM |-> totalRAM,
                result |-> profileHardware(cores, totalRAM, totalRAM \div 2)]
  /\ UNCHANGED progVars

ApplyCheckAvailableModels ==
  /\ \E ok \in BOOLEAN, listing \in SUBSET Range(ListedModels) :
       call' = [fn |-> "checkAvailableModels", ok |-> ok, listing |-> listing,
                result |-> checkAvailableModels(ok, listing)]
  /\ UNCHANGED progVars

ApplyGetAvailableModels ==
  /\ \E ok \in BOOLEAN, listing \in SUBSET Range(ListedModels) :
       call' = [fn |-> "getAvailableModels", ok |-> ok, listing |-> listing,
                result |-> getAvailableModels(ok, listing)]
  /\ UNCHANGED progVars

AssessNext ==
  \/ ApplyAssessOOMRisk
  \/ ApplyAssessThermalThrottling
  \/ ApplyAssessOutputQuality
  \/ ApplyEvaluateQuality
  \/ ApplyCalculateUsabilityScore
  \/ ApplyGenerateRecommendedConfig
  \/ ApplyProfileHardware
  \/ ApplyCheckAvailableModels
  \/ ApplyGetAvailableModels

AssessSpec == AssessInit /\ [][AssessNext]_vars

----------------------------------------------------------------------------
(* The smart router: a prompt is analysed by keywords and an AI target is  *)
(* selected from the analysis.  Prompts are strings; the string functions  *)
(* of the Go library are computed character by character.                  *)

Char(s, i) == SubSeq(s, i, i)

UpperLetters == "ABCDEFGHIJKLMNOPQRSTUVWXYZ"

LowerLetters == "abcdefghijklmnopqrstuvwxyz"

LowerChar(c) ==
  IF \E i \in 1 .. Len(UpperLetters) : Char(UpperLetters, i) = c
  THEN Char(LowerLetters, CHOOSE i \in 1 .. Len(UpperLetters) : Char(UpperLetters, i) = c)
  ELSE c

RECURSIVE ToLowerFrom(_, _)
ToLowerFrom(s, i) ==
  IF i > Len(s) THEN "" ELSE LowerChar(Char(s, i)) \o ToLowerFrom(s, i + 1)

\* strings.ToLower, letter by letter.
StringsToLower(s) == ToLowerFrom(s, 1)

IsSpace(c) == c \in {" ", "\t", "\n"}

RECURSIVE FieldsFrom(_, _, _, _)
FieldsFrom(s, i, cur, acc) ==
  IF i > Len(s) THEN (IF cur = "" THEN acc ELSE Append(acc, cur))
  ELSE IF IsSpace(Char(s, i))
       THEN FieldsFrom(s, i + 1, "", IF cur = "" THEN acc ELSE Append(acc, cur))
       ELSE FieldsFrom(s, i + 1, cur \o Char(s, i), acc)

\* strings.Fields: the maximal runs of non-space characters, in order.
Fields(s) == FieldsFrom(s, 1, "", <<>>)

RECURSIVE CountFrom(_, _, _)
CountFrom(s, sub, i) ==
  IF i + Len(sub) - 1 > Len(s) THEN 0
  ELSE IF SubSeq(s, i, i + Len(sub) - 1) = sub
       THEN 1 + CountFrom(s, sub, i + Len(sub))
       ELSE CountFrom(s, sub, i + 1)

\* strings.Count: the number of non-overlapping occurrences of sub in s.
StringsCount(s, sub) == CountFrom(s, sub, 1)

\* regexp.MatchString for an alternation of literals: some literal occurs
\* somewhere in s.
MatchString(literals, s) ==
  \E lit \in literals :
    \E i \in 1 .. (Len(s) - Len(lit) + 1) : SubSeq(s, i, i + Len(lit) - 1) = lit

speedKeywords ==
  {"quick", "fast", "brief", "summary", "urgent", "immediate",
   "rapid", "short", "simple", "asap"}

qualityKeywords ==
  {"comprehensive", "detailed", "professional", "thorough",
   "complete", "polished", "client", "presentation", "publish"}

codeKeywords ==
  {"code", "function", "bug", "refactor", "implement", "debug",
   "test", "class", "method", "algorithm", "fix", "error"}

docsKeywords ==
  {"document", "api", "guide", "readme", "manual", "specification",
   "tutorial", "explanation", "instructions", "documentation"}

complexityKeywords ==
  {"architecture", "system", "design", "analyze", "research",
   "strategy", "planning", "migration", "optimization", "complex"}

ComplexityPattern == {"analyz", "architect", "design", "system", "complex"}

containsWord(slice, word) == word \in slice

\* The number of words of the prompt found in a keyword list, every
\* occurrence counted.
KeywordHits(slice, words) ==
  Cardinality({i \in 1 .. Len(words) : containsWord(slice, words[i])})

analyzeComplexity(prompt, words) ==
  LET complexityScore ==
        2 * KeywordHits(complexityKeywords, words)
        + (IF Len(words) > 20 THEN 1 ELSE 0)
        + (IF StringsCount(prompt, " and ") > 2 THEN 1 ELSE 0)
        + (IF MatchString(ComplexityPattern, prompt) THEN 2 ELSE 0)
  IN IF complexityScore >= 4 THEN "complex"
     ELSE IF complexityScore >= 2 THEN "medium"
     ELSE "simple"

analyzeUrgencyTiesImmediate(prompt, words) ==
  LET speedScore == KeywordHits(speedKeywords, words)
      qualityScore == KeywordHits(qualityKeywords, words)
  IN IF speedScore >= qualityScore /\ speedScore > 0 THEN "immediate"
     ELSE IF qualityScore > speedScore /\ qualityScore > 0 THEN "quality"
     ELSE "normal"

analyzeUrgency(prompt, words) ==
  LET speedScore == KeywordHits(speedKeywords, words)
      qualityScore == KeywordHits(qualityKeywords, words)
  IN IF speedScore > qualityScore /\ speedScore > 0 THEN "immediate"
     ELSE IF qualityScore > speedScore /\ qualityScore > 0 THEN "quality"
     ELSE "normal"

analyzeContentType(prompt, words) ==
  LET codeScore == KeywordHits(codeKeywords, words)
      docsScore == KeywordHits(docsKeywords, words)
  IN IF codeScore > docsScore /\ codeScore > 0 THEN "code"
     ELSE IF docsScore > codeScore /\ docsScore > 0 THEN "docs"
     ELSE "general"

\* Confidence in hundredths.  The float sum 0.5 + 0.2 + 0.2 + 0.1 stays just
\* below 1.0, so the cap never changes the value shown to one decimal.
calculateConfidence(analysis, prompt) ==
  LET confidence ==
        50 + (IF analysis.contentType # "general" THEN 20 ELSE 0)
           + (IF analysis.urgency # "normal" THEN 20 ELSE 0)
           + (IF Len(prompt) > 10 THEN 10 ELSE 0)
  IN IF confidence > 100 THEN 100 ELSE confidence

\* SmartRouter.AnalyzePrompt; Analyzer.Analyze of the integration guide is
\* the same code under another receiver.
AnalyzePrompt(rawPrompt) ==
  LET prompt == StringsToLower(rawPrompt)
      words == Fields(prompt)
      analysis == [complexity |-> analyzeComplexity(prompt, words),
                   urgency |-> analyzeUrgency(prompt, words),
                   contentType |-> analyzeContentType(prompt, words)]
  IN [complexity |-> analysis.complexity,
      urgency |-> analysis.urgency,
      contentType |-> analysis.contentType,
      confidence |-> calculateConfidence(analysis, prompt)]

\* An AI target: cost in cents, time in seconds.
AITarget(type, model, provider, reason, cost, seconds) ==
  [type |-> type, model |-> model, provider |-> provider, reason |-> reason,
   estimatedCost |-> cost, estimatedTime |-> seconds]

SelectAICodeFirst(analysis) ==
  IF analysis.urgency = "immediate"
  THEN AITarget("local", "orca-mini:3b", "", "Speed priority for immediate tasks", 1, 3)
  ELSE IF analysis.contentType = "code"
  THEN AITarget("local", "codellama:7b", "", "Code specialist for technical accuracy", 2, 15)
  ELSE IF analysis.complexity = "complex" /\ analysis.urgency = "quality"
  THEN AITarget("cloud", "claude-3-sonnet", "", "Complex task requiring maximum capability", 50, 8)
  ELSE IF analysis.contentType = "docs" /\ analysis.urgency = "quality"
  THEN AITarget("local", "llama2:13b", "", "High quality for professional documentation", 3, 25)
  ELSE AITarget("local", "mistral:7b", "", "Balanced performance for general tasks", 2, 12)

\* SmartRouter.SelectAI of the stand-alone router.
SelectAI(analysis) ==
  IF analysis.urgency = "immediate"
  THEN AITarget("local", "orca-mini:3b", "", "Speed priority for immediate tasks", 1, 3)
  ELSE IF analysis.complexity = "complex" /\ analysis.urgency = "quality"
  THEN AITarget("cloud", "claude-3-sonnet", "", "Complex task requiring maximum capability", 50, 8)
  ELSE IF analysis.contentType = "code"
  THEN AITarget("local", "codellama:7b", "", "Code specialist for technical accuracy", 2, 15)
  ELSE IF analysis.contentType = "docs" /\ analysis.urgency = "quality"
  THEN AITarget("local", "llama2:13b", "", "High quality for professional documentation", 3, 25)
  ELSE AITarget("local", "mistral:7b", "", "Balanced performance for general tasks", 2, 12)

\* The models NewSelector configures.
NewSelector ==
  [speedModel |-> "orca-mini:3b", balanceModel |-> "mistral:7b",
   qualityModel |-> "llama2:13b", codeModel |-> "codellama:7b", cloudModel |-> "claude"]

\* Selector.SelectAI of the integration guide: the cloud target names its
\* provider and leaves the model empty.
SelectorSelectAI(s, analysis) ==
  IF analysis.urgency = "immediate"
  THEN AITarget("local", s.speedModel, "", "Speed priority for immediate tasks", 1, 3)
  ELSE IF analysis.complexity = "complex" /\ analysis.urgency = "quality"
  THEN AITarget("cloud", "", s.cloudModel, "Complex task requiring maximum capability", 50, 8)
  ELSE IF analysis.contentType = "code"
  THEN AITarget("local", s.codeModel, "", "Code specialist for technical accuracy", 2, 15)
  ELSE IF analysis.contentType = "docs" /\ analysis.urgency = "quality"
  THEN AITarget("local", s.qualityModel, "", "High quality for professional documentation", 3, 25)
  ELSE AITarget("local", s.balanceModel, "", "Balanced performance for general tasks", 2, 12)

\* The most words of a generated prompt placed before its tail.
MaxHeadWords == 2

\* Words a generated prompt is made of: a keyword of each list (one of them
\* in capitals), a complexity keyword the pattern matches and one it does
\* not, a word the pattern matches that is no keyword, the conjunction, and
\* a word that is nothing.
RouteVocabulary ==
  {"quick", "detailed", "bug", "API", "design", "research", "redesigned", "and", "notes"}

RECURSIVE Repeat(_, _)
Repeat(w, n) == IF n = 0 THEN <<>> ELSE <<w>> \o Repeat(w, n - 1)

\* Tails that bring a prompt to the limits of the word count (20) and of the
\* count of " and " (2).
RouteTails ==
  { <<>>,
    <<"notes", "and", "notes", "and", "notes">>,
    Repeat("a", 19) }

RECURSIVE Join(_)
Join(ws) ==
  IF Len(ws) = 0 THEN ""
  ELSE IF Len(ws) = 1 THEN ws[1]
  ELSE ws[1] \o " " \o Join(Tail(ws))

\* The prompts of the test table and of the usage text.
ExamplePrompts ==
  {"quick bug fix summary",
   "comprehensive API documentation",
   "complex system architecture analysis",
   "comprehensive API documentation for user service",
   "complex microservice architecture analysis",
   "refactor authentication function"}

RoutePrompts ==
  ExamplePrompts \cup
  {Join(h \o t) : h \in UNION {[1 .. n -> RouteVocabulary] : n \in 0 .. MaxHeadWords},
                  t \in RouteTails}

\* Every analysis a caller can build.
AllAnalyses ==
  [complexity : {"simple", "medium", "complex"},
   urgency : {"immediate", "normal", "quality"},
   contentType : {"code", "docs", "general"},
   confidence : {0}]

NoAnalysis == [complexity |-> "", urgency |-> "", contentType |-> "", confidence |-> 0]

NoTarget == AITarget("", "", "", "", 0, 0)

RouterInit ==
  /\ tool = "lowspec"
  /\ profile = NoProfile
  /\ listOk = TRUE
  /\ installed = {}
  /\ available = <<>>
  /\ runs = 1
  /\ pc = "args"
  /\ mi = 1 /\ si = 1 /\ ri = 1
  /\ inFlight = 0
  /\ spawns = <<>>
  /\ initialMemory = 0
  /\ finalMemory = 0
  /\ results = <<>>
  /\ summary = NoSummary
  /\ saved = NotSaved
  /\ reported = {}
  /\ call = NoCall

routerVars == <<tool, profile, listOk, installed, available, runs,
                mi, si, ri, inFlight, spawns, initialMemory, finalMemory, results,
                summary, saved, reported>>

\* main without a prompt argument: the usage text, exit status 1.
PrintUsage ==
  /\ pc = "args"
  /\ call' = [fn |-> "usage", printed |-> <<"usage">>]
  /\ pc' = "exit"
  /\ UNCHANGED routerVars

\* main with a prompt and, possibly, --explain.
ReadArguments ==
  /\ pc = "args"
  /\ \E prompt \in RoutePrompts, explain \in BOOLEAN :
       call' = [fn |-> "ExecuteRouting", impl |-> "SmartRouter", prompt |-> prompt,
                explain |-> explain, analysis |-> NoAnalysis, target |-> NoTarget,
                printed |-> <<>>]
  /\ pc' = "analyze"
  /\ UNCHANGED routerVars

RouteAnalyzePrompt ==
  /\ pc = "analyze"
  /\ call' = [call EXCEPT !.analysis = AnalyzePrompt(call.prompt)]
  /\ pc' = "select"
  /\ UNCHANGED routerVars

\* The selector test builds an analysis itself and hands it to SelectAI.
BuildAnalysis ==
  /\ pc = "args"
  /\ \E analysis \in AllAnalyses, impl \in {"SmartRouter", "Selector"} :
       call' = [fn |-> "SelectAI", impl |-> impl, prompt |-> "", explain |-> FALSE,
                analysis |-> analysis, target |-> NoTarget, printed |-> <<>>]
  /\ pc' = "select"
  /\ UNCHANGED routerVars

RouteSelectAI ==
  /\ pc = "select"
  /\ call' = [call EXCEPT !.target = IF call.impl = "Selector"
                                     THEN SelectorSelectAI(NewSelector, call.analysis)
                                     ELSE SelectAI(call.analysis)]
  /\ pc' = IF call.fn = "ExecuteRouting" THEN "print" ELSE "done"
  /\ UNCHANGED routerVars

\* The lines printed: the explanation by ExecuteRouting, or the one-line
\* selection by main, and then the line naming the model to run.
RoutePrint ==
  /\ pc = "print"
  /\ call' = [call EXCEPT !.printed =
                (IF call.explain THEN <<"analysis", "selection">> ELSE <<"selected">>)
                \o <<"would-execute">>]
  /\ pc' = "done"
  /\ UNCHANGED routerVars

RouterNext ==
  \/ PrintUsage
  \/ ReadArguments
  \/ RouteAnalyzePrompt
  \/ BuildAnalysis
  \/ RouteSelectAI
  \/ RoutePrint

RouterSpec == RouterInit /\ [][RouterNext]_vars

----------------------------------------------------------------------------
(* Properties *)

\* The number of invocations of a complete run.
NumCombinations == Len(available) * Len(Scenarios(tool)) * runs

\* The i-th (available model, scenario, run index) in the order of the loops:
\* runs innermost, then scenarios, then models.
Combination(i) ==
  LET nS == Len(Scenarios(tool))
  IN [model |-> available[((i - 1) \div (nS * runs)) + 1],
      scenario |-> Scenarios(tool)[(((i - 1) \div runs) % nS) + 1],
      run |-> ((i - 1) % runs) + 1]

\* The field of a result that names the scenario it came from.
ScenarioTag(t, r) ==
  CASE t = "lowspec" -> r.testCase
    [] t = "comparison" -> r.prompt
    [] t = "uroboro" -> r.testName

TagOfScenario(t, sc) == IF t = "comparison" THEN sc.prompt ELSE sc.name

LoopEnded == pc \in {"save", "report", "done"}

\* The best-model map of a summary.
Winners ==
  CASE tool = "lowspec" -> summary.optimalModels
    [] tool = "comparison" -> summary.bestModel
    [] tool = "uroboro" -> summary.bestModelPerUseCase

HasSuccess(model) == \E i \in 1 .. Len(results) : results[i].model = model /\ results[i].success

HasFailure == \E i \in 1 .. Len(results) : ~results[i].success

\* C1: at most one inference process is in flight at any time, and every
\* invocation started before the one in flight has already ended and left
\* its result.
C1_OneProcessInFlight ==
  /\ inFlight \in {0, 1}
  /\ Len(spawns) = Len(results) + inFlight
  /\ (inFlight = 1) = (pc = "running")

\* C1 witness: a process is in flight after an earlier one was killed by
\* its timeout.
C1_Witness ==
  /\ inFlight = 1
  /\ \E i \in 1 .. Len(results) : results[i].error = "signal: killed"

\* C2: a model none of whose invocations succeeded is never a best-model
\* winner of any use case.
C2_FailingModelNeverWins ==
  LoopEnded => \A u \in DOMAIN Winners : HasSuccess(Winners[u])

\* C3: when the loop has ended the result list holds exactly one record for
\* every (available model, scenario, run index), in execution order, and
\* every failed invocation has its error recorded on its record.
C3_OneRecordPerCombination ==
  LoopEnded =>
    /\ Len(results) = NumCombinations
    /\ \A i \in 1 .. Len(results) :
         /\ results[i].model = Combination(i).model
         /\ ScenarioTag(tool, results[i]) = TagOfScenario(tool, Combination(i).scenario)
         /\ results[i].success = (results[i].error = "")

\* C3 witness: a completed run in which a failed invocation was followed by
\* a successful one.
C3_Witness ==
  /\ pc = "done"
  /\ \E i, j \in 1 .. Len(results) : i < j /\ ~results[i].success /\ results[j].success

\* C4: the processes spawned so far are exactly the first combinations of
\* the loop order, one process each, whatever the earlier invocations did;
\* when the loop has ended every combination was spawned exactly once.
C4_NoRetries ==
  /\ Len(spawns) <= NumCombinations
  /\ \A i \in 1 .. Len(spawns) :
       spawns[i] = <<Combination(i).model, Combination(i).scenario.name, Combination(i).run>>
  /\ LoopEnded => Len(spawns) = NumCombinations

\* C4 witness: the loop has ended and the very first invocation had failed.
C4_Witness ==
  /\ LoopEnded
  /\ Len(results) > 1
  /\ ~results[1].success

C6_RankingDeterministic ==
  LoopEnded => \A orders \in MapOrders(tool, results) :
                 Summarize(tool, results, profile, orders) = summary

\* C7: when every invocation succeeded, the keys of the best-model map are
\* exactly the use cases declared by the scenarios of the run.
C7_OneWinnerPerUseCase ==
  (LoopEnded /\ ~HasFailure) =>
    DOMAIN Winners = {Scenarios(tool)[i].useCase : i \in 1 .. Len(Scenarios(tool))}

\* The key under which the summary groups a result.
GroupKey(t, r) ==
  CASE t = "lowspec" -> ToLower(r.testCase)
    [] t = "comparison" -> inferUseCase(r.prompt)
    [] t = "uroboro" -> r.useCase

\* C8: every result is grouped under the use case its scenario declares, so
\* two results share a group exactly when their scenarios declare the same
\* use case.
C8_GroupedByDeclaredUseCase ==
  LoopEnded => \A i \in 1 .. Len(results) :
                 GroupKey(tool, results[i]) = Combination(i).scenario.useCase

\* The score on which a tool compares successful results across use cases.
OverallScore(t, r) == IF t = "lowspec" THEN r.usabilityScore ELSE TestScore(r)

HasConfig == tool \in {"lowspec", "uroboro"}

PrimaryModel ==
  IF tool = "lowspec" THEN summary.recommendedConfig.primaryModel
  ELSE summary.uroboroConfig.primaryModel

\* C9: the primary model is an available model, and one of its successful
\* results has the best score among all successful results of the run.
C9_PrimaryIsOverallBest ==
  (LoopEnded /\ HasConfig) =>
    /\ PrimaryModel \in Range(available)
    /\ \E i \in 1 .. Len(results) :
         /\ results[i].model = PrimaryModel /\ results[i].success
         /\ \A j \in 1 .. Len(results) :
              results[j].success =>
                OverallScore(tool, results[j]) <= OverallScore(tool, results[i])

\* The fallback chain of the recommended configuration.
ConfigFallbacks ==
  IF tool = "lowspec"
  THEN (IF summary.recommendedConfig.fallbackModel = "" THEN <<>>
        ELSE <<summary.recommendedConfig.fallbackModel>>)
  ELSE summary.uroboroConfig.fallbackChain

\* C10: the recommended configuration carries the fixed, non-empty fallback
\* chain whatever the benchmark outcome.
C10_FixedFallbackChain ==
  (LoopEnded /\ HasConfig) => (ConfigFallbacks # <<>> /\ ConfigFallbacks = FallbackChain)

\* C11: the persisted record holds every result of the run, failed ones
\* included, in production order: as many records as invocations were
\* performed, the i-th record being the result of the i-th invocation, and
\* nothing is filtered out between the loop and the save.
C11_PersistsEveryResult ==
  saved.state = "written" =>
    /\ saved.results = results
    /\ Len(saved.results) = Len(spawns)
    /\ \A i \in 1 .. Len(spawns) :
         /\ saved.results[i].model = spawns[i][1]
         /\ ScenarioTag(tool, saved.results[i]) = TagOfScenario(tool, Combination(i).scenario)

C11_Witness ==
  /\ saved.state = "written"
  /\ \E i, j \in 1 .. Len(saved.results) :
       i < j /\ ~saved.results[i].success /\ saved.results[j].success

\* C12: an invocation that ran into its timeout leaves a failed result whose
\* error is a timeout error: it is not empty, and no invocation that ended
\* before its timeout (non-zero exit, killed by something else) carries it.
C12_TimeoutErrorDistinct ==
  \A i \in 1 .. Len(results) :
    results[i].responseTime >= TimeoutMs(tool) =>
      /\ ~results[i].success
      /\ results[i].error # ""
      /\ \A j \in 1 .. Len(results) :
           results[j].responseTime < TimeoutMs(tool) => results[j].error # results[i].error

\* C13: the memory delta recorded on a result is the available memory sampled
\* before the invocation minus the available memory sampled after it, so a
\* drop of d MB is recorded as +d.  (During the pause after an invocation the
\* two samples of that invocation are still at hand.)
C13_DeltaIsBeforeMinusAfter ==
  (tool = "lowspec" /\ pc = "pause") =>
    results[Len(results)].peakMemoryMB = initialMemory - finalMemory

\* C15: the OOM-risk flag of every result is low, medium or high, whatever
\* the memory samples were and whether or not the invocation succeeded.
C15_OOMRiskAlwaysClassified ==
  tool = "lowspec" =>
    \A i \in 1 .. Len(results) : results[i].oomRisk \in {"low", "medium", "high"}

\* C14: the OOM-risk class is decided by the ratio memory delta / available
\* RAM alone: below 0.5 low, from 0.5 to below 0.8 medium, from 0.8 high; a
\* delta of 3600 MB with 4096 MB available is high.
C14_OOMRiskByRatio ==
  (call.fn = "assessOOMRisk" /\ call.availableMemory > 0) =>
    call.result = (IF 2 * call.memoryUsed < call.availableMemory THEN "low"
                   ELSE IF 5 * call.memoryUsed < 4 * call.availableMemory THEN "medium"
                   ELSE "high")

\* The baseline response time (ms) of a hardware class.
ThermalBaseline(class) ==
  CASE class = "mobile" -> 10000
    [] class = "laptop" -> 8000
    [] class = "desktop" -> 5000
    [] OTHER -> 3000

\* C16: thermal-throttle suspicion is true exactly when the response time is
\* strictly above twice the baseline of the hardware class; 20 s on a laptop
\* is flagged, exactly twice the baseline is not.
C16_ThrottleAboveTwiceBaseline ==
  call.fn = "assessThermalThrottling" =>
    /\ call.result = (call.responseTime > 2 * ThermalBaseline(call.thermalProfile))
    /\ (call.thermalProfile = "laptop" /\ call.responseTime = 20000) => call.result
    /\ (call.responseTime = 2 * ThermalBaseline(call.thermalProfile)) => ~call.result

\* C16 witness: a laptop answering in exactly twice its baseline is not flagged.
C16_Witness ==
  /\ call.fn = "assessThermalThrottling"
  /\ call.thermalProfile = "laptop"
  /\ call.responseTime = 16000
  /\ call.result = FALSE

IsQualityCall(c) == c.fn \in {"assessOutputQuality", "evaluateQuality"}

\* C17: a quality score is a function of (output, use case) alone - two
\* applications of a scorer to the same output and use case give the same
\* score - and every score lies within [1,5].
C17_QualityPureWithinRange ==
  [][IsQualityCall(call') =>
       /\ call'.result >= 1000 /\ call'.result <= 5000
       /\ (call.fn = call'.fn /\ call.output = call'.output /\ call.useCase = call'.useCase)
            => call.result = call'.result]_vars

\* Two applications of the same scorer, for the same use case, to outputs of
\* equal length.
SameLengthCalls(c, d) ==
  /\ IsQualityCall(c) /\ c.fn = d.fn
  /\ c.success /\ d.success
  /\ c.useCase = d.useCase
  /\ c.output.pad = d.output.pad /\ c.output.len = d.output.len

\* C18: of two outputs of equal length, the one with markdown structure
\* scores higher for devlog and blog and lower for capture and social, and
\* two that differ only in technical vocabulary score differently.
C18_StructureAndVocabularyCount ==
  [][SameLengthCalls(call, call') =>
       /\ (/\ call.output.terms = call'.output.terms
           /\ call.output.marks # {} /\ call'.output.marks = {})
            => /\ call.useCase \in {"devlog", "blog"} => call.result > call'.result
               /\ call.useCase \in {"capture", "social"} => call.result < call'.result
       /\ (/\ call.output.marks = call'.output.marks
           /\ call.output.terms # call'.output.terms)
            => call.result # call'.result]_vars

\* The weights (tenths) of the time term and of the quality score.
UsabilityWeights(priority) ==
  CASE priority = "speed" -> <<7, 3>>
    [] priority = "quality" -> <<3, 7>>
    [] priority = "memory" -> <<5, 5>>

\* C19: the usability score is w_t * max(1, 5 - seconds/10) + w_q * quality
\* with (w_t, w_q) = (0.7, 0.3), (0.3, 0.7), (0.5, 0.5) for speed, quality
\* and memory priority, and lies within [1,5] for a quality within [1,5].
C19_UsabilityFormula ==
  (call.fn = "calculateUsabilityScore" /\ call.priority \in {"speed", "quality", "memory"}) =>
    LET timeTerm == Max(1000, 5000 - call.responseTime \div 10)
        w == UsabilityWeights(call.priority)
    IN /\ 10 * call.result = w[1] * timeTerm + w[2] * call.qualityScore
       /\ call.result >= 1000 /\ call.result <= 5000

\* C19 witness: a response slow enough for the floor of the time term.
C19_Witness ==
  /\ call.fn = "calculateUsabilityScore"
  /\ call.priority = "quality"
  /\ call.responseTime = 60000
  /\ call.qualityScore = 1000
  /\ call.result = 1000

\* The adjusted score of a result: its usability score, minus 2.0 if
\* available RAM is below 8192 MB and the OOM risk is high, minus 1.0 if the
\* battery impact is high, plus 0.5 if there is no thermal-throttle suspicion.
ClaimedAdjustedScore(r) ==
  r.usabilityScore
    - (IF profile.availableRAM < 8192 /\ r.oomRisk = "high" THEN 2000 ELSE 0)
    - (IF r.batteryImpact = "high" THEN 1000 ELSE 0)
    + (IF r.thermalThrottling THEN 0 ELSE 500)

\* C20: every group of results that has a successful result has a winner,
\* and the winner is the model of a successful result of the group whose
\* adjusted score is maximal in the group - also when every adjusted score
\* of the group is zero or negative.
C20_WinnerHasMaxAdjustedScore ==
  (LoopEnded /\ tool = "lowspec") =>
    \A i \in 1 .. Len(results) :
      results[i].success =>
        LET key == GroupKey(tool, results[i])
            group == {k \in 1 .. Len(results) :
                        results[k].success /\ GroupKey(tool, results[k]) = key}
        IN /\ key \in DOMAIN summary.optimalModels
           /\ \E j \in group :
                /\ results[j].model = summary.optimalModels[key]
                /\ \A k \in group :
                     ClaimedAdjustedScore(results[k]) <= ClaimedAdjustedScore(results[j])

\* The successful results (indices) of a group of the ranking, and those of
\* one model in it.
GroupOk(key) ==
  {k \in 1 .. Len(results) : results[k].success /\ GroupKey(tool, results[k]) = key}

ModelOk(key, m) == {k \in GroupOk(key) : results[k].model = m}

\* Sum of f over a set of result indices.
RECURSIVE SumOver(_, _)
SumOver(S, f) ==
  IF S = {} THEN 0 ELSE LET k == CHOOSE x \in S : TRUE IN f[k] + SumOver(S \ {k}, f)

\* The score a ranking gives one result.
RankScore ==
  [k \in 1 .. Len(results) |->
     IF ~results[k].success THEN 0
     ELSE IF tool = "lowspec" THEN ClaimedAdjustedScore(results[k])
     ELSE TestScore(results[k])]

ResponseTimeOf == [k \in 1 .. Len(results) |-> results[k].responseTime]

\* The failed runs of a model among the invocations of a group's scenarios.
FailedRuns(key, m) ==
  Cardinality({k \in 1 .. Len(results) :
                 /\ results[k].model = m /\ ~results[k].success
                 /\ \E j \in GroupOk(key) :
                      ScenarioTag(tool, results[j]) = ScenarioTag(tool, results[k])})

\* C21: when several models share the highest (average) score of a use case,
\* the winner is the one with the lower average response time, and among
\* those with equal average response time the one with fewer failed runs.
C21_TieBreakByTimeThenFailures ==
  (LoopEnded /\ tool \in {"lowspec", "uroboro"}) =>
    \A key \in DOMAIN Winners :
      LET w == Winners[key]
          nw == Cardinality(ModelOk(key, w))
      IN \A k \in GroupOk(key) :
           LET m == results[k].model
               nm == Cardinality(ModelOk(key, m))
               sameScore == SumOver(ModelOk(key, m), RankScore) * nw
                              = SumOver(ModelOk(key, w), RankScore) * nm
               timeW == SumOver(ModelOk(key, w), ResponseTimeOf) * nm
               timeM == SumOver(ModelOk(key, m), ResponseTimeOf) * nw
           IN (nw > 0 /\ sameScore) =>
                /\ timeW <= timeM
                /\ (timeW = timeM) => FailedRuns(key, w) <= FailedRuns(key, m)

\* C22: the resource fields of the recommended configuration are decided by
\* available RAM alone: below 8192 MB context length 2048, concurrency 1,
\* memory buffer 1024 MB and swap recommended; from 8192 MB context length
\* 4096, concurrency 2, memory buffer 2048 MB and swap optional.
C22_ConfigByAvailableRam ==
  call.fn = "generateRecommendedConfig" =>
    IF call.availableRAM < 8192
    THEN /\ call.result.contextLength = 2048
         /\ call.result.concurrentRequests = 1
         /\ call.result.memoryBuffer = 1024
         /\ call.result.swapRecommendation = "Enable 4GB swap file"
    ELSE /\ call.result.contextLength = 4096
         /\ call.result.concurrentRequests = 2
         /\ call.result.memoryBuffer = 2048
         /\ call.result.swapRecommendation = "Optional"

\* C22 witness: exactly 8192 MB available, on a laptop, with a result at hand.
C22_Witness ==
  /\ call.fn = "generateRecommendedConfig"
  /\ call.availableRAM = 8192
  /\ call.thermalProfile = "laptop"
  /\ call.results # <<>>
  /\ call.result.contextLength = 4096

ExpectedLength(useCase) ==
  CASE useCase = "capture" -> 100
    [] useCase = "summary" -> 200
    [] useCase = "social" -> 150
    [] useCase = "devlog" -> 400
    [] useCase = "blog" -> 600
    [] OTHER -> 200

\* C25: with r = length / expected length of the use case, the length score
\* is 1.0 for r < 0.3, 2.5 for 0.3 <= r < 0.7, 4.0 for 0.7 <= r <= 1.5, 3.0
\* for 1.5 < r <= 2.0 and 2.0 for r > 2.0.
C25_FiveLengthBands ==
  call.fn = "assessOutputQuality" =>
    LET len == StrLen(call.output)
        exp == ExpectedLength(call.useCase)
    IN call.result =
         (IF 10 * len < 3 * exp THEN 1000
          ELSE IF 10 * len < 7 * exp THEN 2500
          ELSE IF 10 * len <= 15 * exp THEN 4000
          ELSE IF 10 * len <= 20 * exp THEN 3000
          ELSE 2000)

\* C25 witness: a capture output of exactly 1.5 times the expected length.
C25_Witness ==
  /\ call.fn = "assessOutputQuality"
  /\ call.useCase = "capture"
  /\ StrLen(call.output) = 150
  /\ call.result = 4000

\* C23: the availability check returns exactly the candidates that are
\* installed - never a model that is not in the runtime's listing, always
\* from the candidate list where one is given - and nothing when the listing
\* query fails.
C23_AvailableAreInstalledCandidates ==
  call.fn \in {"checkAvailableModels", "getAvailableModels"} =>
    /\ ~call.ok => call.result = <<>>
    /\ Range(call.result) \subseteq call.listing
    /\ (call.fn = "checkAvailableModels" /\ call.ok) =>
         Range(call.result) = Range(CandidateModels) \cap call.listing

\* C26: between two consecutive invocations of a run there is the pause:
\* when an invocation ends and another one is still to come, the run goes
\* into the pause before anything else, so the next process is not spawned
\* straight after the previous one ended.
C26_PauseBetweenInvocations ==
  [][(inFlight = 1 /\ inFlight' = 0 /\ Len(results') < NumCombinations)
       => pc' = "pause"]_vars

\* C27: a result, once appended, is never changed: every step of the run -
\* the later invocations, summary and configuration, save, report - leaves
\* every result already in the list as it is and in its place.
C27_ResultsNeverMutated ==
  [][/\ Len(results') >= Len(results)
     /\ \A i \in 1 .. Len(results) : results'[i] = results[i]]_vars

\* C27 witness: a run that went through summary, save and report with a
\* failed result ahead of a successful one.
C27_Witness ==
  /\ pc = "done" /\ saved.state = "written" /\ reported # {}
  /\ \E i, j \in 1 .. Len(results) : i < j /\ ~results[i].success /\ results[j].success

\* C28: every run terminates, even when an external process never exits by
\* itself: with the program's own steps and the kills of its deadlines taken
\* when they can be, and no process ever required to end of its own accord,
\* the run reaches its end (the fatal exit or the report), having spawned at
\* most |models| x |scenarios| x runs inference processes.
C28_RunTerminates ==
  /\ [](pc # "start" => Len(spawns) <= NumCombinations)
  /\ <>(pc \in {"fatal", "done"})

====
